---- MODULE Spec2Model ----
(***************************************************************************)
(* switchboard: the in-process store (switchboard/store.py) and the        *)
(* versioned entities built on it (switchboard/models.py).                 *)
(*                                                                         *)
(* An item is a Python dict: a function from field names to values.  The   *)
(* store's _items dict is a sequence of [id, item] entries in iteration    *)
(* order.  Every operation is one action; what it was called with, the     *)
(* state it ran in and what it returned are kept in `last`.                *)
(***************************************************************************)
EXTENDS Integers, Sequences, FiniteSets, TLC

VARIABLES
    items,      \* InMemoryStore._items of the primary store (Model.store)
    allocated,  \* history: every id that was ever a key of _items
    log,        \* the documents of the shadow store (store.versioned())
    ent,        \* the entity instance the caller holds, or None
    clock,      \* what datetime.utcnow() returns
    last,       \* the last call: its name, arguments, pre-state and result
    callers     \* the get_or_create calls of two concurrent callers

vars == <<items, allocated, log, ent, clock, last, callers>>

\* What the store's own operations leave alone.
entityVars == <<log, ent, clock, callers>>

(* ------------------------------ bounds -------------------------------- *)

\* The largest number of items the store holds.
MaxItems == 2

\* The latest time datetime.utcnow() returns.
MaxClock == 1

\* The largest field value of the states that are compared by _diff.
MaxValue == 3

\* The largest number of documents in a shadow log that is replayed.
MaxLog == 5

\* The conditions a switch holds at most.
MaxConditions == 2

(* ------------------------------ values -------------------------------- *)

\* Python's None.
None == [none |-> TRUE]

\* The two callers of a concurrent get_or_create, and a caller that is not
\* in a call.
Callers == {1, 2}

NotCalled == [pc |-> "idle"]

NoCallers == [c \in Callers |-> NotCalled]

\* The store only compares the values of an item's fields for equality, so
\* every value is a number.

\* The ids a caller passes.
IdInputs == 0 .. (MaxItems - 1)

\* Items without an id, as a caller builds them: one with no field, and
\* items that agree and differ on each field.
PlainItems ==
    {<<>>, [key |-> 1], [key |-> 1, status |-> 1], [key |-> 2, status |-> 1]}

\* The field filters of filter(), get() and remove().
PlainFilters ==
    {<<>>, [key |-> 1], [key |-> 2], [status |-> 1],
     [key |-> 1, status |-> 1], [key |-> 1, status |-> 2]}

\* The defaults and the field lookups of get_or_create().
DefaultInputs == {<<>>, [status |-> 1], [key |-> 2]}

PlainLookups == {<<>>, [key |-> 1], [key |-> 2]}

(* --------------------------- dict helpers ----------------------------- *)

\* bool(d) of a dict: an empty dict is false.
Truthy(d) == DOMAIN d # {}

\* d without key k (dict.pop's effect on d).
Pop(d, k) == [x \in DOMAIN d \ {k} |-> d[x]]

\* _withid: sets item['id'] on the very dict it is given.
WithId(item, id_) ==
    [x \in DOMAIN item \cup {"id"} |-> IF x = "id" THEN id_ ELSE item[x]]

\* update() that forgets what the dict held.
UpdateReplacing(a, b) == b

\* a.update(b): b wins on the keys both have.
Update(a, b) ==
    [x \in DOMAIN a \cup DOMAIN b |-> IF x \in DOMAIN b THEN b[x] ELSE a[x]]

\* The dicts of D, and each of them with every id.
WithAnyId(D) == D \cup {WithId(d, i) : d \in D, i \in IdInputs}

\* What save() is given; what filter(), get() and remove() are given; what
\* get_or_create() looks up.
SaveInputs == WithAnyId(PlainItems)

FilterInputs == WithAnyId(PlainFilters)

LookupInputs == WithAnyId(PlainLookups)

\* The keys of _items.
Keys(its) == {its[i].id : i \in 1 .. Len(its)}

IndexOf(its, id_) == CHOOSE i \in 1 .. Len(its) : its[i].id = id_

\* _items.get(id_)
DictGet(its, id_) ==
    IF id_ \in Keys(its) THEN its[IndexOf(its, id_)].item ELSE None

\* _items[id_] = item: in place when the key is there, a new entry otherwise.
DictSet(its, id_, item) ==
    IF id_ \in Keys(its)
    THEN [its EXCEPT ![IndexOf(its, id_)].item = item]
    ELSE Append(its, [id |-> id_, item |-> item])

\* _items.pop(id_, None)
DictPop(its, id_) == SelectSeq(its, LAMBDA e : e.id # id_)

(* --------------------------- InMemoryStore ---------------------------- *)
(* Each operation gives [items |-> the store afterwards, ret |-> result].  *)

StoreSave(its, item) ==
    LET id_ == IF "id" \in DOMAIN item THEN item.id ELSE Len(its)
    IN  [items |-> DictSet(its, id_, Pop(item, "id")), ret |-> id_]

\* match() without the test that the item has the key.
matchPresentKeys(item, filterdict) ==
    \A k \in DOMAIN filterdict : k \in DOMAIN item => item[k] = filterdict[k]

match(item, filterdict) ==
    \A k \in DOMAIN filterdict : k \in DOMAIN item /\ item[k] = filterdict[k]

StoreFilter(its, kwargs) ==
    IF "id" \in DOMAIN kwargs
    THEN LET id_ == kwargs.id
             item == DictGet(its, id_)
         IN  IF item # None /\ Truthy(item)
             THEN [items |-> DictSet(its, id_, WithId(item, id_)),
                   ret |-> <<WithId(item, id_)>>]
             ELSE [items |-> its, ret |-> <<>>]
    ELSE LET stamped == [i \in 1 .. Len(its) |->
                            IF match(its[i].item, kwargs)
                            THEN [id |-> its[i].id,
                                  item |-> WithId(its[i].item, its[i].id)]
                            ELSE its[i]]
             hits == SelectSeq(its, LAMBDA e : match(e.item, kwargs))
         IN  [items |-> stamped,
              ret |-> [i \in 1 .. Len(hits) |-> WithId(hits[i].item, hits[i].id)]]

StoreGet(its, kwargs) ==
    LET r == StoreFilter(its, kwargs)
    IN  [items |-> r.items,
         ret |-> IF r.ret # <<>> THEN r.ret[1] ELSE None]

\* A remove() that stops after the first item found.
PopFirst(its, found) ==
    IF found = <<>> THEN its ELSE DictPop(its, found[1].id)

RECURSIVE PopAll(_, _)
PopAll(its, found) ==
    IF found = <<>> THEN its
    ELSE PopAll(DictPop(its, found[1].id), Tail(found))

StoreRemove(its, kwargs) ==
    LET r == StoreFilter(its, kwargs)
    IN  [items |-> PopAll(r.items, r.ret), ret |-> None]

StoreCount(its) == Len(its)

StoreGetOrCreate(its, defaults, kwargs) ==
    LET g == StoreGet(its, kwargs)
    IN  IF g.ret # None /\ Truthy(g.ret)
        THEN [items |-> g.items, ret |-> [item |-> g.ret, created |-> FALSE]]
        ELSE LET item == Update(kwargs, defaults)
                 s == StoreSave(g.items, item)
                 kept == WithId(Pop(item, "id"), s.ret)
             IN  [items |-> DictSet(s.items, s.ret, kept),
                  ret |-> [item |-> kept, created |-> TRUE]]

(* ------------------------- the store's actions ------------------------ *)

\* The caller is between two calls.
Idle == [op |-> "idle"]

Save(item) ==
    LET r == StoreSave(items, item)
    IN  /\ last = Idle
        /\ Len(r.items) <= MaxItems
        /\ items' = r.items
        /\ allocated' = allocated \cup Keys(r.items)
        /\ last' = [op |-> "save", arg |-> item, pre |-> items,
                    was |-> allocated, ret |-> r.ret]
        /\ UNCHANGED entityVars

Filter(kwargs) ==
    LET r == StoreFilter(items, kwargs)
    IN  /\ last = Idle
        /\ items' = r.items
        /\ last' = [op |-> "filter", arg |-> kwargs, pre |-> items, ret |-> r.ret]
        /\ UNCHANGED <<allocated, entityVars>>

Get(kwargs) ==
    LET r == StoreGet(items, kwargs)
    IN  /\ last = Idle
        /\ items' = r.items
        /\ last' = [op |-> "get", arg |-> kwargs, pre |-> items, ret |-> r.ret]
        /\ UNCHANGED <<allocated, entityVars>>

Remove(kwargs) ==
    LET r == StoreRemove(items, kwargs)
    IN  /\ last = Idle
        /\ items' = r.items
        /\ last' = [op |-> "remove", arg |-> kwargs, pre |-> items, ret |-> r.ret]
        /\ UNCHANGED <<allocated, entityVars>>

Count ==
    /\ last = Idle
    /\ last' = [op |-> "count", pre |-> items, ret |-> StoreCount(items)]
    /\ UNCHANGED <<items, allocated, entityVars>>

GetOrCreate(defaults, kwargs) ==
    LET r == StoreGetOrCreate(items, defaults, kwargs)
    IN  /\ last = Idle
        /\ Len(r.items) <= MaxItems
        /\ items' = r.items
        /\ allocated' = allocated \cup Keys(r.items)
        /\ last' = [op |-> "get_or_create", defaults |-> defaults, arg |-> kwargs,
                    pre |-> items, ret |-> r.ret]
        /\ UNCHANGED entityVars

\* The caller has taken the result of the last call and goes on to the next.
Return ==
    /\ last # Idle
    /\ last' = Idle
    /\ UNCHANGED <<items, allocated, entityVars>>

StoreInit ==
    /\ items = <<>>
    /\ allocated = {}
    /\ log = <<>>
    /\ ent = None
    /\ clock = 0
    /\ last = Idle
    /\ callers = NoCallers

StoreNext ==
    \/ \E item \in SaveInputs : Save(item)
    \/ \E kwargs \in FilterInputs : Filter(kwargs)
    \/ \E kwargs \in FilterInputs : Get(kwargs)
    \/ \E kwargs \in FilterInputs : Remove(kwargs)
    \/ Count
    \/ \E defaults \in DefaultInputs, kwargs \in LookupInputs :
           GetOrCreate(defaults, kwargs)
    \/ Return

StoreSpec == StoreInit /\ [][StoreNext]_vars

(* ------------------------- claims on the store ------------------------ *)

\* The entries of its whose item has every key of f with an equal value.
Matching(its, f) ==
    {i \in 1 .. Len(its) :
        \A k \in DOMAIN f : k \in DOMAIN its[i].item /\ its[i].item[k] = f[k]}

\* r is the stored entry e as a caller sees it: e's fields plus e's id.
Shows(r, e) ==
    /\ DOMAIN r = DOMAIN e.item \cup {"id"}
    /\ r.id = e.id
    /\ \A k \in DOMAIN e.item \ {"id"} : r[k] = e.item[k]

\* C1: save(X) of an item without an id returns an id that was never
\* allocated before and that no stored item holds; no stored item is
\* overwritten and count() grows by exactly 1.
C1_SaveAllocatesUnusedId ==
    (last.op = "save" /\ "id" \notin DOMAIN last.arg) =>
        /\ last.ret \notin last.was
        /\ last.ret \notin Keys(last.pre)
        /\ \A i \in 1 .. Len(last.pre) :
               DictGet(items, last.pre[i].id) = last.pre[i].item
        /\ StoreCount(items) = StoreCount(last.pre) + 1

\* C2: the next read of a saved id observes the save: get(id=save(X)) is X's
\* fields plus that id, also for an X with no fields; a save that carries
\* the id K of a stored item returns K and leaves count() unchanged.
C2_SaveObservedByGet ==
    last.op = "save" =>
        /\ StoreGet(items, [id |-> last.ret]).ret
               = WithId(Pop(last.arg, "id"), last.ret)
        /\ ("id" \in DOMAIN last.arg /\ last.arg.id \in Keys(last.pre)) =>
               /\ last.ret = last.arg.id
               /\ StoreCount(items) = StoreCount(last.pre)

\* C3: without an id filter, filter() returns exactly the stored items that
\* have every filter key with an equal value, in the store's order (all of
\* them when there is no filter); get() returns the first of them, and None
\* with the store unchanged when there is none.
C3_FilterExactMatch ==
    (last.op \in {"filter", "get"} /\ "id" \notin DOMAIN last.arg) =>
        LET M == Matching(last.pre, last.arg)
        IN  /\ last.op = "filter" =>
                /\ Len(last.ret) = Cardinality(M)
                /\ \A i \in M : \E j \in 1 .. Len(last.ret) :
                       Shows(last.ret[j], last.pre[i])
                /\ \A j \in 1 .. Len(last.ret) : \E i \in M :
                       /\ Shows(last.ret[j], last.pre[i])
                       /\ j = Cardinality({h \in M : h <= i})
            /\ (last.op = "get" /\ M # {}) =>
                   \E i \in M : /\ \A h \in M : i <= h
                                /\ Shows(last.ret, last.pre[i])
            /\ (last.op = "get" /\ M = {}) =>
                   /\ last.ret = None
                   /\ items = last.pre

\* C3's case: a filter on a field that some stored items match and others
\* do not.
C3_Witness ==
    /\ last.op = "filter"
    /\ "id" \notin DOMAIN last.arg
    /\ DOMAIN last.arg # {}
    /\ 0 < Len(last.ret)
    /\ Len(last.ret) < Len(last.pre)

\* C4: with id=K among the filters every other filter key is ignored: the
\* result is the stored item with id K if there is one, whatever its other
\* fields, and None / the empty sequence if there is none.
C4_IdTakesPrecedence ==
    (last.op \in {"filter", "get"} /\ "id" \in DOMAIN last.arg) =>
        LET K == last.arg.id
            there == {i \in 1 .. Len(last.pre) : last.pre[i].id = K}
        IN  /\ (last.op = "filter" /\ there = {}) => last.ret = <<>>
            /\ (last.op = "get" /\ there = {}) => last.ret = None
            /\ \A i \in there :
                   /\ last.op = "filter" =>
                          Len(last.ret) = 1 /\ Shows(last.ret[1], last.pre[i])
                   /\ last.op = "get" =>
                          last.ret # None /\ Shows(last.ret, last.pre[i])

\* C5: remove(**filters) deletes exactly the items filter(**filters) returns
\* in the same state and leaves every other stored item as it was; remove()
\* without filters empties the store; count() is the number of items that
\* filter() without filters returns, in every state.
C5_RemoveDeletesFiltered ==
    /\ last.op = "remove" =>
           LET found == StoreFilter(last.pre, last.arg).ret
               gone == {found[j].id : j \in 1 .. Len(found)}
           IN  /\ Keys(items) = Keys(last.pre) \ gone
               /\ items = SelectSeq(last.pre, LAMBDA e : e.id \notin gone)
               /\ DOMAIN last.arg = {} =>
                      /\ StoreCount(items) = 0
                      /\ StoreFilter(items, <<>>).ret = <<>>
    /\ StoreCount(items) = Len(StoreFilter(items, <<>>).ret)

\* C5's case: a remove by field that deletes some items and leaves others.
C5_Witness ==
    /\ last.op = "remove"
    /\ DOMAIN last.arg # {}
    /\ "id" \notin DOMAIN last.arg
    /\ 0 < Len(items)
    /\ Len(items) < Len(last.pre)

\* What a second get_or_create with the arguments of the last one returns.
SecondCall == StoreGetOrCreate(items, last.defaults, last.arg)

\* The second of two get_or_create calls in a row finds what the first one
\* returned, and the two add at most one item.
SecondCallFinds ==
    /\ SecondCall.ret.created = FALSE
    /\ SecondCall.ret.item = last.ret.item
    /\ SecondCall.ret.item.id = last.ret.item.id
    /\ StoreCount(SecondCall.items) <= StoreCount(last.pre) + 1

\* defaults and lookup have the same value for every key they share.
Agree(defaults, kwargs) ==
    \A k \in DOMAIN defaults \cap DOMAIN kwargs : defaults[k] = kwargs[k]

DISABLED == 1

SELECTIVE == 2

GLOBAL == 3

INHERIT == 4

INCLUDE == "i"

EXCLUDE == "e"

\* kwargs.get('key') of a Switch built without a key: None, kept a number
\* as the keys are.
NoKey == 0

\* The empty string of label and description.
EmptyString == 0

\* The call returned; otherwise the name of the exception it raised.
NoExc == "none"

\* Switch.__init__ with the settings as imported (no SWITCHBOARD_SWITCH_DEFAULTS):
\* the seven fields from kwargs or their defaults, then Model.__init__'s
\* __dict__.update(kwargs).
SwitchInit(kwargs, now) ==
    Update([key |-> NoKey, value |-> <<>>, label |-> EmptyString,
            date_created |-> now, date_modified |-> now,
            description |-> EmptyString, status |-> DISABLED],
           kwargs)

\* cls(**kwargs): an instance is its class and its __dict__.
Instance(cls, kwargs, now) ==
    [cls |-> cls,
     attrs |-> IF cls = "Switch" THEN SwitchInit(kwargs, now) ELSE kwargs]

\* Model.to_bson: a copy of __dict__.
to_bson(e) == e.attrs

\* Model.get: cls.store.get(kwargs) hands the filter dict over as a
\* positional argument, and _BaseStore.get(self, **kwargs) takes none: the
\* call raises TypeError before the store is read.
ModelGet(its, kwargs) ==
    [items |-> its, exc |-> "TypeError", ret |-> None]

\* signal.send(payload): what was sent, and the primary store and the
\* entity at that moment.
Sent(signal, payload, its, e) ==
    [signal |-> signal, payload |-> payload, items |-> its, ent |-> e]

\* Model.save.  `if id_` is false for no id and for the id 0.
ModelSave(its, e) ==
    LET truthy == "id" \in DOMAIN e.attrs /\ e.attrs.id # 0
        g == ModelGet(its, [id |-> e.attrs.id])
    IN  IF truthy /\ g.exc # NoExc
        THEN [items |-> g.items, ent |-> e, exc |-> g.exc, ret |-> None,
              events |-> <<>>]
        ELSE LET before == IF truthy THEN g.items ELSE its
                 previous == IF truthy THEN g.ret ELSE None
                 s == StoreSave(before, to_bson(e))
                 saved == [e EXCEPT !.attrs = WithId(e.attrs, s.ret)]
             IN  [items |-> s.items, ent |-> saved,
                  exc |-> NoExc, ret |-> s.ret,
                  events |-> <<Sent("pre_save", previous, before, e),
                               Sent("post_save", saved, s.items, saved)>>]

\* Model.remove: the instance is fetched for the signals, then the store
\* removes what matches.
ModelRemove(its, kwargs) ==
    LET g == ModelGet(its, kwargs)
        r == StoreRemove(g.items, kwargs)
    IN  IF g.exc # NoExc
        THEN [items |-> g.items, exc |-> g.exc, ret |-> None, events |-> <<>>]
        ELSE [items |-> r.items, exc |-> NoExc, ret |-> r.ret,
              events |-> <<Sent("pre_delete", g.ret, g.items, g.ret),
                           Sent("post_delete", g.ret, r.items, g.ret)>>]

\* Model.delete: self.remove(id=self.id)
ModelDelete(its, e) ==
    IF "id" \notin DOMAIN e.attrs
    THEN [items |-> its, exc |-> "AttributeError", ret |-> None,
          events |-> <<>>]
    ELSE ModelRemove(its, [id |-> e.attrs.id])

(* The shadow store that store.versioned() returns: the documents it was   *)
(* given, each under the id the Store contract allocates.                  *)

\* vc.save(doc)
ShadowSave(lg, doc) == StoreSave(lg, doc).items

\* vc.filter(**filterdict): the documents with every field of filterdict.
ShadowFilter(lg, filterdict) ==
    LET hits == SelectSeq(lg, LAMBDA e : match(e.item, filterdict))
    IN  [i \in 1 .. Len(hits) |-> hits[i].item]

\* store.versioned() on a store of store.py: _BaseStore, InMemoryStore and
\* SQLAlchemyStore define save, get, filter, remove, count and
\* get_or_create, and no versioned.
StoreVersioned(lg) == [exc |-> "AttributeError", ret |-> None]

\* VersioningModel._versioned_collection: cls.store.versioned()
VersionedCollection(lg) == StoreVersioned(lg)

\* vc.find(filterdict), as previous_version calls it: a Store answers save,
\* get, filter, remove, count and get_or_create, and has no find.
VersionedFind(lg, filterdict) == [exc |-> "AttributeError", ret |-> <<>>]

\* VersioningModel._unpack_delta: a map the version lacks is empty.
Unpack(version) ==
    LET delta == IF "delta" \in DOMAIN version THEN version.delta ELSE <<>>
    IN  [added |-> IF "added" \in DOMAIN delta THEN delta.added ELSE <<>>,
         deleted |-> IF "deleted" \in DOMAIN delta THEN delta.deleted ELSE <<>>,
         changed |-> IF "changed" \in DOMAIN delta THEN delta.changed ELSE <<>>]

\* versions.sort(key=lambda x: x['timestamp']): a stable sort.
RECURSIVE SortByTimestamp(_)
SortByTimestamp(versions) ==
    IF versions = <<>> THEN <<>>
    ELSE LET n == Len(versions)
             front == SortByTimestamp(SubSeq(versions, 1, n - 1))
             v == versions[n]
             k == Cardinality({i \in 1 .. Len(front) :
                                  front[i].timestamp <= v.timestamp})
         IN  SubSeq(front, 1, k) \o <<v>> \o SubSeq(front, k + 1, Len(front))

\* One turn of previous_version's loop: update with added, delete the keys
\* of deleted, set each changed key to its new value.
ApplyVersion(previous, version) ==
    LET d == Unpack(version)
        upd == Update(previous, d.added)
        cut == [k \in DOMAIN upd \ DOMAIN d.deleted |-> upd[k]]
    IN  [k \in DOMAIN cut \cup DOMAIN d.changed |->
            IF k \in DOMAIN d.changed THEN d.changed[k][2] ELSE cut[k]]

RECURSIVE Replay(_, _)
Replay(previous, versions) ==
    IF versions = <<>> THEN previous
    ELSE Replay(ApplyVersion(previous, Head(versions)), Tail(versions))

\* VersioningModel.previous_version: an instance, or None.
PreviousVersion(lg, e, now) ==
    IF "id" \notin DOMAIN e.attrs
    THEN [exc |-> NoExc, ret |-> Instance(e.cls, <<>>, now)]
    ELSE LET found == VersionedFind(lg, [switch_id |-> e.attrs.id])
             previous == Replay(<<>>, SortByTimestamp(found.ret))
         IN  IF found.exc # NoExc
             THEN [exc |-> found.exc, ret |-> None]
             ELSE [exc |-> NoExc,
                   ret |-> IF Truthy(previous)
                           THEN Instance(e.cls, previous, now)
                           ELSE None]

\* _diff with the two values of a changed field the wrong way round.
DiffDeltaSwapped(prev, curr) ==
    LET p == prev # None /\ Truthy(prev)
        c == curr # None /\ Truthy(curr)
    IN  IF p /\ c
        THEN [added |-> [k \in DOMAIN curr \ DOMAIN prev |-> curr[k]],
              deleted |-> [k \in DOMAIN prev \ DOMAIN curr |-> prev[k]],
              changed |-> [k \in {f \in DOMAIN curr \cap DOMAIN prev :
                                     prev[f] # curr[f]} |->
                              <<curr[k], prev[k]>>]]
        ELSE IF p THEN [added |-> <<>>, deleted |-> prev, changed |-> <<>>]
        ELSE IF c THEN [added |-> curr, deleted |-> <<>>, changed |-> <<>>]
        ELSE [added |-> <<>>, deleted |-> <<>>, changed |-> <<>>]

\* The four cases of VersioningModel._diff, given what it fetched: the
\* previous and the current state, each a dict or None.
DiffDelta(prev, curr) ==
    LET p == prev # None /\ Truthy(prev)
        c == curr # None /\ Truthy(curr)
    IN  IF p /\ c
        THEN [added |-> [k \in DOMAIN curr \ DOMAIN prev |-> curr[k]],
              deleted |-> [k \in DOMAIN prev \ DOMAIN curr |-> prev[k]],
              changed |-> [k \in {f \in DOMAIN curr \cap DOMAIN prev :
                                     prev[f] # curr[f]} |->
                              <<prev[k], curr[k]>>]]
        ELSE IF p THEN [added |-> <<>>, deleted |-> prev, changed |-> <<>>]
        ELSE IF c THEN [added |-> curr, deleted |-> <<>>, changed |-> <<>>]
        ELSE [added |-> <<>>, deleted |-> <<>>, changed |-> <<>>]

\* VersioningModel._diff: fetches the current state by id, replays the
\* previous one, and compares them.
EntityDiff(its, lg, e, now) ==
    LET g == ModelGet(its, [id |-> e.attrs.id])
    IN  IF "id" \in DOMAIN e.attrs /\ g.exc # NoExc
        THEN [items |-> g.items, exc |-> g.exc, ret |-> None]
        ELSE LET curr == IF "id" \in DOMAIN e.attrs /\ g.ret # None
                         THEN to_bson(Instance(e.cls, g.ret, now))
                         ELSE None
                 pv == PreviousVersion(lg, e, now)
                 prev == IF pv.ret # None THEN to_bson(pv.ret) ELSE None
                 held == IF "id" \in DOMAIN e.attrs THEN g.items ELSE its
             IN  IF pv.exc # NoExc
                 THEN [items |-> held, exc |-> pv.exc, ret |-> None]
                 ELSE [items |-> held, exc |-> NoExc,
                       ret |-> DiffDelta(prev, curr)]

\* save_version that empties the shadow store before it looks at the
\* delta.
SaveVersionReaping(its, lg, e, now) ==
    [items |-> its, log |-> <<>>, exc |-> NoExc]

\* VersioningModel.save_version: a document is built and saved when the
\* delta is not empty; building it reads self.id.
SaveVersion(its, lg, e, now) ==
    LET d == EntityDiff(its, lg, e, now)
    IN  IF d.exc # NoExc
        THEN [items |-> d.items, log |-> lg, exc |-> d.exc]
        ELSE IF Truthy(d.ret.added) \/ Truthy(d.ret.deleted)
                    \/ Truthy(d.ret.changed)
        THEN IF "id" \notin DOMAIN e.attrs
             THEN [items |-> d.items, log |-> lg, exc |-> "AttributeError"]
             ELSE [items |-> d.items,
                   log |-> ShadowSave(lg, [switch_id |-> e.attrs.id,
                                           timestamp |-> now,
                                           delta |-> d.ret]),
                   exc |-> NoExc]
        ELSE [items |-> d.items, log |-> lg, exc |-> NoExc]

\* versions.sort('timestamp', DESCENDING): the most recent version first.
SortDescending(versions) ==
    LET up == SortByTimestamp(versions)
    IN  [i \in 1 .. Len(up) |-> up[Len(up) + 1 - i]]

\* Switch.list_versions: the filter dict is built from self.id, the
\* versions are asked for with vc.find, and no version gives the dict
\* dict(versions={}).
ListVersions(lg, e) ==
    IF "id" \notin DOMAIN e.attrs
    THEN [exc |-> "AttributeError", ret |-> None]
    ELSE LET found == VersionedFind(lg, [switch_id |-> e.attrs.id])
         IN  IF found.exc # NoExc
             THEN [exc |-> found.exc, ret |-> None]
             ELSE IF found.ret = <<>>
             THEN [exc |-> NoExc, ret |-> [versions |-> <<>>]]
             ELSE [exc |-> NoExc, ret |-> SortDescending(found.ret)]

(* ----------------------- the conditions of a Switch ------------------- *)
(* value maps a namespace to a map from a field name to the list of its    *)
(* [flag, condition] entries.  A condition is a string; the code compares  *)
(* conditions for equality only, so each is a number here.                 *)

\* manager.get_condition_set_by_id(condition_set).get_namespace(): a
\* condition set is known here by its namespace.
GetNamespace(condition_set) == condition_set

\* `condition in self.value[namespace][field_name]`: the condition, a
\* string, is compared with the entries of the list, each a [flag,
\* condition] list, and equals none of them.
ConditionIn(condition, entries) == FALSE

\* A payload that is not a string, as the [0, 50] of add_condition's
\* docstring.
NotAString == 0

\* An isinstance test that every payload passes.
isinstanceAny(condition) == TRUE

\* isinstance(condition, basestring)
isinstance(condition) == condition # NotAString

\* Switch.add_condition, up to the commit: the value map afterwards.  The
\* assert comes before the value map is touched.
add_condition(value, condition_set, field_name, condition, exclude) ==
    LET namespace == GetNamespace(condition_set)
        v1 == IF namespace \in DOMAIN value THEN value
              ELSE Update(value, namespace :> <<>>)
        f1 == IF field_name \in DOMAIN v1[namespace] THEN v1[namespace]
              ELSE Update(v1[namespace], field_name :> <<>>)
        entries == f1[field_name]
        flag == IF exclude THEN EXCLUDE ELSE INCLUDE
        e1 == IF ~ConditionIn(condition, entries)
              THEN Append(entries, <<flag, condition>>)
              ELSE entries
    IN  IF ~isinstance(condition)
        THEN [value |-> value, returned |-> TRUE, exc |-> "AssertionError"]
        ELSE [value |-> Update(v1, namespace :> Update(f1, field_name :> e1)),
              returned |-> FALSE, exc |-> NoExc]

\* remove_condition that leaves an emptied field list and namespace map
\* in the value map.
remove_conditionUnpruned(value, condition_set, field_name, condition) ==
    LET namespace == GetNamespace(condition_set)
    IN  IF namespace \notin DOMAIN value
        THEN [value |-> value, returned |-> TRUE, exc |-> NoExc]
        ELSE IF field_name \notin DOMAIN value[namespace]
        THEN [value |-> value, returned |-> TRUE, exc |-> NoExc]
        ELSE LET kept == SelectSeq(value[namespace][field_name],
                                   LAMBDA c : c[2] # condition)
             IN  [value |-> Update(value, namespace :>
                                Update(value[namespace], field_name :> kept)),
                  returned |-> FALSE, exc |-> NoExc]

\* Switch.remove_condition, up to the commit: the value map afterwards,
\* and whether the method returned before the commit.
remove_condition(value, condition_set, field_name, condition) ==
    LET namespace == GetNamespace(condition_set)
    IN  IF namespace \notin DOMAIN value
        THEN [value |-> value, returned |-> TRUE, exc |-> NoExc]
        ELSE IF field_name \notin DOMAIN value[namespace]
        THEN [value |-> value, returned |-> TRUE, exc |-> NoExc]
        ELSE LET kept == SelectSeq(value[namespace][field_name],
                                   LAMBDA c : c[2] # condition)
                 f1 == IF kept = <<>> THEN Pop(value[namespace], field_name)
                       ELSE Update(value[namespace], field_name :> kept)
             IN  [value |-> IF kept = <<>> /\ ~Truthy(f1)
                            THEN Pop(value, namespace)
                            ELSE Update(value, namespace :> f1),
                  returned |-> FALSE, exc |-> NoExc]

\* A field name that `not field_name` holds of: None, or the empty string.
NoField == ""

\* Switch.clear_conditions, up to the commit; field_name may be None.
clear_conditions(value, condition_set, field_name) ==
    LET namespace == GetNamespace(condition_set)
    IN  IF namespace \notin DOMAIN value
        THEN [value |-> value, returned |-> TRUE, exc |-> NoExc]
        ELSE IF field_name = NoField
        THEN [value |-> Pop(value, namespace), returned |-> FALSE, exc |-> NoExc]
        ELSE IF field_name \notin DOMAIN value[namespace]
        THEN [value |-> value, returned |-> TRUE, exc |-> NoExc]
        ELSE [value |-> Update(value, namespace :>
                                   Pop(value[namespace], field_name)),
              returned |-> FALSE, exc |-> NoExc]

STATUS_LABELS ==
    [status \in {DISABLED, SELECTIVE, GLOBAL, INHERIT} |->
        CASE status = INHERIT -> "Inherit from parent"
          [] status = GLOBAL -> "Active for everyone"
          [] status = SELECTIVE -> "Active for conditions"
          [] status = DISABLED -> "Disabled for everyone"]

\* Switch.get_status_label
get_status_label(e) ==
    LET status == IF e.attrs.status = SELECTIVE /\ ~Truthy(e.attrs.value)
                  THEN GLOBAL
                  ELSE e.attrs.status
    IN  STATUS_LABELS[status]

(* ------------------------- the entity's actions ----------------------- *)

\* The keys and the statuses a caller gives a switch.
KeyInputs == {1, 2}

StatusInputs == {DISABLED, SELECTIVE, GLOBAL, INHERIT}

\* The primary store, the shadow store and the instance a call started from.
Before == [items |-> items, log |-> log, ent |-> ent]

\* Time passes.
Tick ==
    /\ last = Idle
    /\ clock < MaxClock
    /\ clock' = clock + 1
    /\ UNCHANGED <<items, allocated, log, ent, last, callers>>

\* Switch(key=key)
NewSwitch(key) ==
    /\ last = Idle
    /\ ent' = Instance("Switch", [key |-> key], clock)
    /\ last' = [op |-> "Switch", arg |-> key, pre |-> Before, exc |-> NoExc]
    /\ UNCHANGED <<items, allocated, log, clock, callers>>

\* Switch.create(key=key): the instance is built and then saved.
Create(key) ==
    LET r == ModelSave(items, Instance("Switch", [key |-> key], clock))
    IN  /\ last = Idle
        /\ Len(r.items) <= MaxItems
        /\ items' = r.items
        /\ allocated' = allocated \cup Keys(r.items)
        /\ ent' = r.ent
        /\ last' = [op |-> "create", arg |-> key, pre |-> Before,
                    exc |-> r.exc, ret |-> r.ret, events |-> r.events]
        /\ UNCHANGED <<log, clock, callers>>

\* switch.<field> = value
SetAttr(field, value) ==
    /\ last = Idle
    /\ ent # None
    /\ ent.attrs[field] # value
    /\ ent' = [ent EXCEPT !.attrs[field] = value]
    /\ last' = [op |-> "setattr", arg |-> field, pre |-> Before, exc |-> NoExc]
    /\ UNCHANGED <<items, allocated, log, clock, callers>>

\* switch.save()
EntitySave ==
    LET r == ModelSave(items, ent)
    IN  /\ last = Idle
        /\ ent # None
        /\ Len(r.items) <= MaxItems
        /\ items' = r.items
        /\ allocated' = allocated \cup Keys(r.items)
        /\ ent' = r.ent
        /\ last' = [op |-> "Model.save", pre |-> Before,
                    exc |-> r.exc, ret |-> r.ret, events |-> r.events]
        /\ UNCHANGED <<log, clock, callers>>

\* switch.save_version()
EntitySaveVersion ==
    LET r == SaveVersion(items, log, ent, clock)
    IN  /\ last = Idle
        /\ ent # None
        /\ items' = r.items
        /\ log' = r.log
        /\ last' = [op |-> "save_version", pre |-> Before, exc |-> r.exc]
        /\ UNCHANGED <<allocated, ent, clock, callers>>

\* switch._diff()
EntityDiffCall ==
    LET r == EntityDiff(items, log, ent, clock)
    IN  /\ last = Idle
        /\ ent # None
        /\ items' = r.items
        /\ last' = [op |-> "_diff", pre |-> Before, exc |-> r.exc,
                    ret |-> r.ret]
        /\ UNCHANGED <<allocated, log, ent, clock, callers>>

\* entity.previous_version()
EntityPreviousVersion ==
    /\ last = Idle
    /\ ent # None
    /\ last' = [op |-> "previous_version", pre |-> Before,
                exc |-> PreviousVersion(log, ent, clock).exc,
                ret |-> PreviousVersion(log, ent, clock).ret]
    /\ UNCHANGED <<items, allocated, log, ent, clock, callers>>

\* switch.delete()
EntityDelete ==
    LET r == ModelDelete(items, ent)
    IN  /\ last = Idle
        /\ ent # None
        /\ items' = r.items
        /\ last' = [op |-> "delete", pre |-> Before, exc |-> r.exc,
                    ret |-> r.ret, events |-> r.events]
        /\ UNCHANGED <<allocated, log, ent, clock, callers>>

\* What Switch.remove() is given.
RemoveInputs == {<<>>, [key |-> 1], [id |-> 0]}

\* Switch.remove(**kwargs)
EntityRemove(kwargs) ==
    LET r == ModelRemove(items, kwargs)
    IN  /\ last = Idle
        /\ items' = r.items
        /\ last' = [op |-> "remove", arg |-> kwargs, pre |-> Before,
                    exc |-> r.exc, ret |-> r.ret, events |-> r.events]
        /\ UNCHANGED <<allocated, log, ent, clock, callers>>

\* switch.list_versions()
EntityListVersions ==
    /\ last = Idle
    /\ ent # None
    /\ last' = [op |-> "list_versions", pre |-> Before,
                exc |-> ListVersions(log, ent).exc,
                ret |-> ListVersions(log, ent).ret]
    /\ UNCHANGED <<items, allocated, log, ent, clock, callers>>

\* Switch._versioned_collection()
EntityVersionedCollection ==
    /\ last = Idle
    /\ last' = [op |-> "_versioned_collection", pre |-> Before,
                exc |-> VersionedCollection(log).exc,
                ret |-> VersionedCollection(log).ret]
    /\ UNCHANGED <<items, allocated, log, ent, clock, callers>>

Init == StoreInit

Next ==
    \/ Tick
    \/ \E key \in KeyInputs : NewSwitch(key)
    \/ \E key \in KeyInputs : Create(key)
    \/ \E key \in KeyInputs : SetAttr("key", key)
    \/ \E status \in StatusInputs : SetAttr("status", status)
    \/ EntitySave
    \/ EntitySaveVersion
    \/ EntityDiffCall
    \/ EntityPreviousVersion
    \/ EntityListVersions
    \/ EntityDelete
    \/ \E kwargs \in RemoveInputs : EntityRemove(kwargs)
    \/ EntityVersionedCollection
    \/ Return

Spec == Init /\ [][Next]_vars

(* ------------------------ claims on saving versions ------------------- *)

\* The fields of a stored entity that differ from the instance being saved.
ChangedFields(old, attrs) ==
    {f \in (DOMAIN old \cap DOMAIN attrs) \ {"id"} : old[f] # attrs[f]}

\* The documents of the shadow log lg for the entity with id k.
VersionsOf(lg, k) ==
    {lg[i].item : i \in {j \in 1 .. Len(lg) : lg[j].item.switch_id = k}}

\* C7: save() of a created and saved Switch with a field f changed from old
\* to new leaves the primary store holding the new state and appends to the
\* shadow log an entry for the switch's id with changed[f] = (old, new),
\* which is the switch's most recent entry by timestamp.
C7_SaveRecordsChange ==
    (/\ last.op = "Model.save"
     /\ "id" \in DOMAIN last.pre.ent.attrs
     /\ last.pre.ent.attrs.id \in Keys(last.pre.items)) =>
        LET attrs == last.pre.ent.attrs
            old == DictGet(last.pre.items, attrs.id)
        IN  \A f \in ChangedFields(old, attrs) :
                /\ DictGet(items, attrs.id) = Pop(attrs, "id")
                /\ \E v \in VersionsOf(log, attrs.id) :
                       /\ f \in DOMAIN Unpack(v).changed
                       /\ Unpack(v).changed[f] = <<old[f], attrs[f]>>
                       /\ \A w \in VersionsOf(log, attrs.id) :
                              w.timestamp <= v.timestamp

\* The delta save_version() is to record for entity e: the state the
\* primary store holds for e's id against the replay of e's log.
DeltaToRecord(its, lg, e) ==
    LET saved == "id" \in DOMAIN e.attrs
        held == IF saved THEN DictGet(its, e.attrs.id) ELSE None
        curr == IF held # None THEN WithId(held, e.attrs.id) ELSE None
        prev == IF saved
                THEN Replay(<<>>, SortByTimestamp(
                         ShadowFilter(lg, [switch_id |-> e.attrs.id])))
                ELSE None
    IN  DiffDelta(prev, curr)

\* C8: save_version() appends exactly one entry to the shadow log when one
\* of the delta's three maps is not empty and nothing otherwise, and never
\* changes the primary store.
C8_SaveVersionAppendsIffChanged ==
    last.op = "save_version" =>
        LET d == DeltaToRecord(last.pre.items, last.pre.log, last.pre.ent)
        IN  /\ items = last.pre.items
            /\ IF Truthy(d.added) \/ Truthy(d.deleted) \/ Truthy(d.changed)
               THEN /\ Len(log) = Len(last.pre.log) + 1
                    /\ SubSeq(log, 1, Len(last.pre.log)) = last.pre.log
               ELSE log = last.pre.log

\* The fields of a state; an absent state has none.
FieldsOf(state) == IF state = None THEN {} ELSE DOMAIN state

\* d is the field-by-field delta from the previous state P to the current
\* state C, each a field map or None.
IsDeltaOf(d, P, C) ==
    /\ DOMAIN d.added = FieldsOf(C) \ FieldsOf(P)
    /\ \A f \in DOMAIN d.added : d.added[f] = C[f]
    /\ DOMAIN d.deleted = FieldsOf(P) \ FieldsOf(C)
    /\ \A f \in DOMAIN d.deleted : d.deleted[f] = P[f]
    /\ DOMAIN d.changed = {f \in FieldsOf(P) \cap FieldsOf(C) : P[f] # C[f]}
    /\ \A f \in DOMAIN d.changed : d.changed[f] = <<P[f], C[f]>>
    /\ P = C => ~Truthy(d.added) /\ ~Truthy(d.deleted) /\ ~Truthy(d.changed)
    /\ (C = None /\ P # None) =>
           d.deleted = P /\ ~Truthy(d.added) /\ ~Truthy(d.changed)
    /\ (P = None /\ C # None) =>
           d.added = C /\ ~Truthy(d.deleted) /\ ~Truthy(d.changed)

\* The state the primary store holds for e's id, and the replay of e's
\* entries of the shadow log; None when there is none.
CurrentState(its, e) ==
    LET held == DictGet(its, e.attrs.id)
    IN  IF held # None THEN WithId(held, e.attrs.id) ELSE None

PreviousState(lg, e) ==
    LET state == Replay(<<>>, SortByTimestamp(
                     ShadowFilter(lg, [switch_id |-> e.attrs.id])))
    IN  IF Truthy(state) THEN state ELSE None

\* C9: diff() of an entity with an id returns, for the previous state P and
\* the current state C: added = the fields of C not in P with C's values,
\* deleted = the fields of P not in C with P's values, changed = the fields
\* of both whose values differ, each with (P's value, C's value); equal
\* states give three empty maps; an absent C gives deleted = all of P, an
\* absent P gives added = all of C, and two absent states three empty maps.
C9_DiffReturnsDelta ==
    (last.op = "_diff" /\ "id" \in DOMAIN last.pre.ent.attrs) =>
        /\ last.exc = NoExc
        /\ IsDeltaOf(last.ret, PreviousState(last.pre.log, last.pre.ent),
                     CurrentState(last.pre.items, last.pre.ent))

\* The entity e has nothing to be found: it is not in the primary store and
\* its entries of the shadow log, if it has an id, fold to nothing.
NothingToFind(its, lg, e) ==
    "id" \in DOMAIN e.attrs =>
        CurrentState(its, e) = None /\ PreviousState(lg, e) = None

\* C11: not-found is a value, never an error: previous_version() returns
\* None for an entity with an id whose log folds to nothing and an instance
\* for an entity without an id; for such an entity that is not in the
\* primary store either, diff() yields three empty maps and save_version()
\* appends nothing.
C11_NotFoundIsAValue ==
    /\ last.op = "previous_version" =>
           /\ last.exc = NoExc
           /\ IF "id" \in DOMAIN last.pre.ent.attrs
              THEN PreviousState(last.pre.log, last.pre.ent) = None
                       => last.ret = None
              ELSE last.ret # None
    /\ (/\ last.op = "_diff"
        /\ NothingToFind(last.pre.items, last.pre.log, last.pre.ent)) =>
           /\ last.exc = NoExc
           /\ ~Truthy(last.ret.added)
           /\ ~Truthy(last.ret.deleted)
           /\ ~Truthy(last.ret.changed)
    /\ (/\ last.op = "save_version"
        /\ NothingToFind(last.pre.items, last.pre.log, last.pre.ent)) =>
           /\ last.exc = NoExc
           /\ log = last.pre.log

\* C12: whenever a diff is computed for an entity with an id, the replay of
\* the entity's whole shadow log is exactly the state the primary store
\* holds for it (None when it holds none).
C12_ReplayIsStoredState ==
    (/\ last.op \in {"_diff", "save_version"}
     /\ "id" \in DOMAIN last.pre.ent.attrs) =>
        PreviousState(last.pre.log, last.pre.ent)
            = CurrentState(last.pre.items, last.pre.ent)

\* C14: list_versions() of an entity with an id returns all entries of the
\* shadow log for that id and only those, as a sequence with the most
\* recent timestamp first; with no history it returns the empty sequence.
C14_ListVersionsDescending ==
    (last.op = "list_versions" /\ "id" \in DOMAIN last.pre.ent.attrs) =>
        LET mine == VersionsOf(last.pre.log, last.pre.ent.attrs.id)
        IN  /\ last.exc = NoExc
            /\ mine = {} => last.ret = <<>>
            /\ DOMAIN last.ret = 1 .. Cardinality(mine)
            /\ {last.ret[i] : i \in DOMAIN last.ret} = mine
            /\ \A i, j \in DOMAIN last.ret :
                   i < j => last.ret[i].timestamp >= last.ret[j].timestamp

\* C20: the lifecycle signals are sent around the store operation: save()
\* sends pre_save before the primary store is written and post_save after
\* the write, when the entity has its id; delete() and remove() send
\* pre_delete while the item is in the store and post_delete when it is
\* gone; each call sends exactly one of each.
C20_SignalsAroundStore ==
    /\ last.op = "Model.save" =>
           /\ Len(last.events) = 2
           /\ last.events[1].signal = "pre_save"
           /\ last.events[1].items = last.pre.items
           /\ last.events[2].signal = "post_save"
           /\ last.events[2].items = items
           /\ "id" \in DOMAIN last.events[2].ent.attrs
           /\ last.events[2].ent.attrs.id \in Keys(items)
    /\ (/\ last.op = "delete"
        /\ "id" \in DOMAIN last.pre.ent.attrs
        /\ last.pre.ent.attrs.id \in Keys(last.pre.items)) =>
           /\ Len(last.events) = 2
           /\ last.events[1].signal = "pre_delete"
           /\ last.pre.ent.attrs.id \in Keys(last.events[1].items)
           /\ last.events[2].signal = "post_delete"
           /\ last.pre.ent.attrs.id \notin Keys(last.events[2].items)
           /\ last.pre.ent.attrs.id \notin Keys(items)
    /\ last.op = "remove" =>
           /\ Len(last.events) = 2
           /\ last.events[1].signal = "pre_delete"
           /\ last.events[1].items = last.pre.items
           /\ last.events[2].signal = "post_delete"
           /\ last.events[2].items = items

\* C21: the payload of pre_save is the stored instance of every entity that
\* is already in the store, whatever its id, and is absent only for an entity
\* that was never saved; the payload of post_save is the saved entity.
C21_PreSavePayloadIsPrior ==
    last.op = "Model.save" =>
        LET e == last.pre.ent
            persisted == /\ "id" \in DOMAIN e.attrs
                         /\ e.attrs.id \in Keys(last.pre.items)
        IN  /\ Len(last.events) = 2
            /\ persisted =>
                   /\ last.events[1].payload # None
                   /\ last.events[1].payload.attrs
                          = WithId(DictGet(last.pre.items, e.attrs.id),
                                   e.attrs.id)
            /\ "id" \notin DOMAIN e.attrs => last.events[1].payload = None
            /\ last.events[2].payload = ent

\* C24: _versioned_collection() returns the shadow store that is paired
\* with the primary store: every call succeeds and gives the one store that
\* holds the documents saved through earlier calls.
C24_VersionedIsPaired ==
    last.op = "_versioned_collection" =>
        /\ last.exc = NoExc
        /\ last.ret = log

\* C25: save() of a versioned entity is all-or-nothing over the primary
\* store and the shadow log: a save that fails changes neither, the
\* primary store is written exactly when the log gets a delta, and after
\* the save the log replays to the state the primary store holds.
C25_SaveAllOrNothing ==
    last.op \in {"create", "Model.save"} =>
        /\ last.exc # NoExc => items = last.pre.items /\ log = last.pre.log
        /\ items # last.pre.items <=> log # last.pre.log
        /\ (last.exc = NoExc /\ "id" \in DOMAIN ent.attrs) =>
               PreviousState(log, ent) = CurrentState(items, ent)

(* ------------------------- conditions of a switch --------------------- *)
(* A switch that was built with a key and a status has its conditions      *)
(* added, removed and cleared, with and without a commit.                  *)

\* The condition sets, the field names and the conditions a caller gives.
SetInputs == {"n1", "n2"}

FieldInputs == {"f", "g"}

ConditionInputs == {1, 2}

\* Every entry of the value map: its namespace, field name and position.
Entries(value) ==
    UNION {UNION {{<<ns, f, i>> : i \in 1 .. Len(value[ns][f])} :
                     f \in DOMAIN value[ns]} : ns \in DOMAIN value}

\* The end of add_condition, remove_condition and clear_conditions: the
\* value dict was changed in place, so the item the primary store holds
\* for the switch, which holds the same dict, shows the change too; then
\* self.save() if commit, unless the method returned or raised before.
Conditions(op, arg, r, commit) ==
    LET changed == [ent EXCEPT !.attrs.value = r.value]
        held == "id" \in DOMAIN ent.attrs /\ ent.attrs.id \in Keys(items)
        shown == IF held
                 THEN DictSet(items, ent.attrs.id,
                          [DictGet(items, ent.attrs.id)
                              EXCEPT !.value = r.value])
                 ELSE items
        s == IF commit /\ ~r.returned
             THEN ModelSave(shown, changed)
             ELSE [items |-> shown, ent |-> changed, exc |-> NoExc,
                   ret |-> None, events |-> <<>>]
    IN  /\ last = Idle
        /\ ent # None
        /\ ent.cls = "Switch"
        /\ Cardinality(Entries(r.value)) <= MaxConditions
        /\ Len(s.items) <= MaxItems
        /\ items' = s.items
        /\ allocated' = allocated \cup Keys(s.items)
        /\ ent' = s.ent
        /\ last' = [op |-> op, arg |-> arg, commit |-> commit,
                    pre |-> Before,
                    exc |-> IF r.exc # NoExc THEN r.exc ELSE s.exc]
        /\ UNCHANGED <<log, clock, callers>>

\* switch.add_condition(manager, condition_set, field_name, condition,
\*                      exclude, commit)
AddCondition(condition_set, field_name, condition, exclude, commit) ==
    Conditions("add_condition",
               <<condition_set, field_name, condition, exclude>>,
               add_condition(ent.attrs.value, condition_set, field_name,
                             condition, exclude),
               commit)

\* switch.remove_condition(manager, condition_set, field_name, condition,
\*                         commit)
RemoveCondition(condition_set, field_name, condition, commit) ==
    Conditions("remove_condition", <<condition_set, field_name, condition>>,
               remove_condition(ent.attrs.value, condition_set, field_name,
                                condition),
               commit)

\* switch.clear_conditions(manager, condition_set, field_name, commit)
ClearConditions(condition_set, field_name, commit) ==
    Conditions("clear_conditions", <<condition_set, field_name>>,
               clear_conditions(ent.attrs.value, condition_set, field_name),
               commit)

\* switch.add_condition(manager, condition_set, field_name, condition,
\*                      exclude, commit=False)
\* switch.remove_condition(manager, condition_set, field_name, condition,
\*                         commit=False)
AddThenRemove(condition_set, field_name, condition, exclude) ==
    Conditions("add_condition; remove_condition",
               <<condition_set, field_name, condition, exclude>>,
               remove_condition(
                   add_condition(ent.attrs.value, condition_set, field_name,
                                 condition, exclude).value,
                   condition_set, field_name, condition),
               FALSE)

\* switch.get_status_label()
GetStatusLabel ==
    /\ last = Idle
    /\ ent # None
    /\ ent.cls = "Switch"
    /\ last' = [op |-> "get_status_label", pre |-> Before, exc |-> NoExc,
                ret |-> get_status_label(ent)]
    /\ UNCHANGED <<items, allocated, log, ent, clock, callers>>

\* Switch(key=1, status=status)
ConditionsInit ==
    /\ items = <<>>
    /\ allocated = {}
    /\ log = <<>>
    /\ ent \in {Instance("Switch", [key |-> 1, status |-> status], 0) :
                   status \in StatusInputs}
    /\ clock = 0
    /\ last = Idle
    /\ callers = NoCallers

ConditionsNext ==
    \/ \E condition_set \in SetInputs, field_name \in FieldInputs,
          condition \in ConditionInputs \cup {NotAString},
          exclude \in BOOLEAN, commit \in BOOLEAN :
            AddCondition(condition_set, field_name, condition, exclude,
                         commit)
    \/ \E condition_set \in SetInputs, field_name \in FieldInputs,
          condition \in ConditionInputs, commit \in BOOLEAN :
            RemoveCondition(condition_set, field_name, condition, commit)
    \/ \E condition_set \in SetInputs,
          field_name \in FieldInputs \cup {NoField}, commit \in BOOLEAN :
            ClearConditions(condition_set, field_name, commit)
    \/ \E condition_set \in SetInputs, field_name \in FieldInputs,
          condition \in ConditionInputs, exclude \in BOOLEAN :
            AddThenRemove(condition_set, field_name, condition, exclude)
    \/ GetStatusLabel
    \/ Return

ConditionsSpec == ConditionsInit /\ [][ConditionsNext]_vars

\* The payloads of the entries of a list.
Payloads(entries) == {entries[i][2] : i \in 1 .. Len(entries)}

\* C17: each (namespace, field) list holds every condition payload at most
\* once, whatever its flag, and add_condition of a payload that the list
\* holds leaves the list unchanged.
C17_ConditionsUnique ==
    /\ ent # None =>
           \A ns \in DOMAIN ent.attrs.value :
               \A f \in DOMAIN ent.attrs.value[ns] :
                   Cardinality(Payloads(ent.attrs.value[ns][f]))
                       = Len(ent.attrs.value[ns][f])
    /\ last.op = "add_condition" =>
           LET before == last.pre.ent.attrs.value
               ns == last.arg[1]
               f == last.arg[2]
           IN  (/\ ns \in DOMAIN before
                /\ f \in DOMAIN before[ns]
                /\ last.arg[3] \in Payloads(before[ns][f])) =>
                   ent.attrs.value[ns][f] = before[ns][f]

\* The condition of the call `last` is in the list of its field in the
\* value map the call started from.
HeldBefore ==
    LET V == last.pre.ent.attrs.value
    IN  /\ last.arg[1] \in DOMAIN V
        /\ last.arg[2] \in DOMAIN V[last.arg[1]]
        /\ last.arg[3] \in Payloads(V[last.arg[1]][last.arg[2]])

\* C18: from every reachable value map V, add_condition(set, field, c) and
\* then remove_condition(set, field, c) leave the value map equal to V, a
\* field list and a namespace map that the two calls made being removed
\* again.
C18_AddRemoveRoundTrip ==
    last.op = "add_condition; remove_condition" =>
        ent.attrs.value = last.pre.ent.attrs.value

\* C18 as amended: for a condition c that V's list for (set, field) does
\* not hold, the two calls leave the value map equal to V, but for a
\* namespace map of the set that V held empty, which is removed with what
\* the two calls made.
C18_AddRemoveRoundTripOfNewCondition ==
    (last.op = "add_condition; remove_condition" /\ ~HeldBefore) =>
        LET V == last.pre.ent.attrs.value
            ns == GetNamespace(last.arg[1])
        IN  ent.attrs.value = IF ns \in DOMAIN V /\ ~Truthy(V[ns])
                              THEN Pop(V, ns)
                              ELSE V

\* C18's case: the two calls made the field list and the namespace map of
\* a value map that holds another namespace.
C18_Witness ==
    /\ last.op = "add_condition; remove_condition"
    /\ Truthy(last.pre.ent.attrs.value)
    /\ last.arg[1] \notin DOMAIN last.pre.ent.attrs.value
    /\ ent.attrs.value = last.pre.ent.attrs.value

\* C19: get_status_label() gives the label of the switch's status, and the
\* label of GLOBAL to a SELECTIVE switch none of whose (namespace, field)
\* lists holds a condition.
C19_StatusLabel ==
    last.op = "get_status_label" =>
        LET e == last.pre.ent
        IN  last.ret = IF e.attrs.status = SELECTIVE
                          /\ Entries(e.attrs.value) = {}
                       THEN STATUS_LABELS[GLOBAL]
                       ELSE STATUS_LABELS[e.attrs.status]

C27_UncommittedStaysInMemory ==
    (/\ last.op \in {"add_condition", "remove_condition", "clear_conditions"}
     /\ ~last.commit
     /\ "id" \in DOMAIN last.pre.ent.attrs
     /\ last.pre.ent.attrs.id \in Keys(last.pre.items)) =>
        LET id_ == last.pre.ent.attrs.id
        IN  /\ StoreGet(items, [id |-> id_]).ret.value
                   = StoreGet(last.pre.items, [id |-> id_]).ret.value
            /\ log = last.pre.log

\* C28: the value map of a switch whose conditions were added, removed and
\* cleared holds no empty container: every namespace has a field, every
\* field has a condition, and so the map is empty exactly when the switch
\* has no condition.
C28_NoEmptyContainer ==
    LET value == ent.attrs.value
    IN  /\ \A ns \in DOMAIN value :
               /\ DOMAIN value[ns] # {}
               /\ \A f \in DOMAIN value[ns] : value[ns][f] # <<>>
        /\ value = <<>> <=> Entries(value) = {}

(* ------------------------------ _diff alone --------------------------- *)
(* The previous and the current state are handed to _diff as the tests do  *)
(* (previous_version and store.get replaced): every pair of states over    *)
(* three fields, and None.                                                 *)

DiffFields == {"a", "b", "c"}

DiffStates ==
    UNION {[D -> 1 .. MaxValue] : D \in SUBSET DiffFields} \cup {None}

DiffInit ==
    /\ items = <<>>
    /\ allocated = {}
    /\ log = <<>>
    /\ ent = None
    /\ clock = 0
    /\ last \in {[op |-> "states", prev |-> P, curr |-> C] :
                    P \in DiffStates, C \in DiffStates}
    /\ callers = NoCallers

Diff ==
    /\ last.op = "states"
    /\ last' = [op |-> "_diff", prev |-> last.prev, curr |-> last.curr,
                ret |-> DiffDelta(last.prev, last.curr)]
    /\ UNCHANGED <<items, allocated, log, ent, clock, callers>>

DiffNext == Diff

DiffSpec == DiffInit /\ [][DiffNext]_vars

\* The comparison of _diff alone is field by field for every pair of
\* states it is handed.
DiffComparisonIsFieldwise ==
    last.op = "_diff" => IsDeltaOf(last.ret, last.prev, last.curr)

\* Two states with a field added, one deleted and one changed.
DiffComparisonCase ==
    /\ last.op = "_diff"
    /\ Truthy(last.ret.added)
    /\ Truthy(last.ret.deleted)
    /\ Truthy(last.ret.changed)

\* The field map of a state; an absent state has no field.
AsFields(state) == IF state = None THEN <<>> ELSE state

\* The delta d undone on a field map: the added fields removed, the old
\* value of each changed field restored, the deleted fields put back.
Undo(state, d) ==
    LET kept == (DOMAIN state \ DOMAIN d.added)
                    \cup DOMAIN d.deleted \cup DOMAIN d.changed
    IN  [k \in kept |->
            IF k \in DOMAIN d.deleted THEN d.deleted[k]
            ELSE IF k \in DOMAIN d.changed THEN d.changed[k][1]
            ELSE state[k]]

V1 == [switch_id |-> 0, timestamp |-> 1,
       delta |-> [added |-> [a |-> 1, b |-> 2]]]

V2 == [switch_id |-> 0, timestamp |-> 2,
       delta |-> [changed |-> [b |-> <<2, 3>>]]]

V3 == [switch_id |-> 0, timestamp |-> 3, delta |-> [added |-> [c |-> 4]]]

V4 == [switch_id |-> 0, timestamp |-> 4, delta |-> [deleted |-> [a |-> 1]]]

\* A version of the entity 1, and the deletion of what it added.
W1 == [switch_id |-> 1, timestamp |-> 2,
       delta |-> [added |-> [a |-> 7, d |-> 8], deleted |-> <<>>,
                  changed |-> <<>>]]

W2 == [switch_id |-> 1, timestamp |-> 5,
       delta |-> [added |-> <<>>, deleted |-> [a |-> 7, d |-> 8],
                  changed |-> <<>>]]

VersionPool == {V1, V2, V3, V4, W1, W2}

\* The shadow store after the documents of docs were saved in that order.
RECURSIVE LogOf(_)
LogOf(docs) ==
    IF docs = <<>> THEN <<>>
    ELSE ShadowSave(LogOf(SubSeq(docs, 1, Len(docs) - 1)), docs[Len(docs)])

\* Every sequence of up to n different documents of the pool.
RECURSIVE Arrangements(_)
Arrangements(n) ==
    IF n = 0 THEN {<<>>}
    ELSE LET shorter == Arrangements(n - 1)
             fresh(docs) == {v \in VersionPool :
                                \A i \in 1 .. Len(docs) : docs[i] # v}
         IN  shorter \cup
             UNION {{Append(docs, v) : v \in fresh(docs)} : docs \in shorter}

ReplayInit ==
    /\ items = <<>>
    /\ allocated = {}
    /\ log \in {LogOf(docs) : docs \in Arrangements(MaxLog)}
    /\ ent \in {Instance("VersioningModel", [id |-> k], 0) : k \in {0, 1}}
    /\ clock = 0
    /\ last = Idle
    /\ callers = NoCallers

ReplayNext == EntityPreviousVersion

ReplaySpec == ReplayInit /\ [][ReplayNext]_vars

\* The state after one version, field by field: a changed field has its new
\* value, a deleted field is gone, an added field has the added value, and
\* every other field is as it was.
AfterVersion(state, v) ==
    LET d == Unpack(v)
        kept == ((DOMAIN state \cup DOMAIN d.added) \ DOMAIN d.deleted)
                    \cup DOMAIN d.changed
    IN  [k \in kept |->
            IF k \in DOMAIN d.changed THEN d.changed[k][2]
            ELSE IF k \in DOMAIN d.added THEN d.added[k]
            ELSE state[k]]

RECURSIVE FoldIn(_, _, _)
FoldIn(state, order, i) ==
    IF i > Len(order) THEN state
    ELSE FoldIn(AfterVersion(state, order[i]), order, i + 1)

\* The ways to put the versions of vs in ascending timestamp order.
AscendingOrders(vs) ==
    {order \in [1 .. Cardinality(vs) -> vs] :
        /\ \A v \in vs : \E i \in DOMAIN order : order[i] = v
        /\ \A i, j \in DOMAIN order :
               i < j => order[i].timestamp <= order[j].timestamp}

\* C10: previous_version() of an entity with an id is the fold, from an
\* empty field map, of the log's entries of that id and of no other, in
\* ascending timestamp order whatever their order in the log; an empty fold
\* gives None.  The four versions of the multidiff test yield {b:3, c:4}.
C10_PreviousVersionIsFold ==
    (last.op = "previous_version" /\ "id" \in DOMAIN ent.attrs) =>
        LET mine == VersionsOf(log, ent.attrs.id)
        IN  /\ last.exc = NoExc
            /\ \E order \in AscendingOrders(mine) :
                   LET state == FoldIn(<<>>, order, 1)
                   IN  IF state = <<>> THEN last.ret = None
                       ELSE last.ret # None /\ to_bson(last.ret) = state
            /\ mine = {V1, V2, V3, V4} =>
                   to_bson(last.ret) = [b |-> 3, c |-> 4]

(* --------------------------- a log with history ----------------------- *)
(* The shadow store outlives the items of the primary store: the entity's  *)
(* operations run on a primary store that starts empty and a shadow log    *)
(* that may hold the history of the ids 0 and 1.                           *)

\* The documents that record the first state of a switch with the id 0 and
\* of a switch with the id 1.
H1 == [switch_id |-> 0, timestamp |-> 0,
       delta |-> DiffDelta(None, WithId(SwitchInit([key |-> 1], 0), 0))]

H2 == [switch_id |-> 1, timestamp |-> 0,
       delta |-> DiffDelta(None, WithId(SwitchInit([key |-> 2], 0), 1))]

HistoryLogs == {LogOf(<<>>), LogOf(<<H1>>), LogOf(<<H1, H2>>)}

HistoryInit ==
    /\ items = <<>>
    /\ allocated = {}
    /\ log \in HistoryLogs
    /\ ent = None
    /\ clock = 0
    /\ last = Idle
    /\ callers = NoCallers

HistoryNext ==
    \/ \E key \in KeyInputs : Create(key)
    \/ \E key \in KeyInputs : SetAttr("key", key)
    \/ EntitySave
    \/ EntitySaveVersion
    \/ EntityDelete
    \/ \E kwargs \in RemoveInputs : EntityRemove(kwargs)
    \/ AddCondition("n1", "f", 1, FALSE, TRUE)
    \/ RemoveCondition("n1", "f", 1, TRUE)
    \/ \E field_name \in {"f", NoField} :
          ClearConditions("n1", field_name, TRUE)
    \/ Return

HistorySpec == HistoryInit /\ [][HistoryNext]_vars

RaceDefaults == {<<>>, [status |-> 1], [key |-> 2]}

RaceLookups == {[key |-> 1], [key |-> 2], [key |-> 1, id |-> 0]}

\* if item: the lookup gave an item that is not empty.
Found(item) == item # None /\ Truthy(item)

\* save(): id_ = item.pop('id', None), and len(self._items) when it is None.
ChooseId(its, item) == IF "id" \in DOMAIN item THEN item.id ELSE Len(its)

\* A write that looks the item up once more and keeps what is there.
WriteUnlessFound(its, kwargs, item, id_) ==
    IF Found(StoreGet(its, kwargs).ret)
    THEN [items |-> its, created |-> FALSE]
    ELSE [items |-> DictSet(its, id_, item), created |-> TRUE]

\* self._items[id_] = item, after which get_or_create returns True.
Write(its, kwargs, item, id_) ==
    [items |-> DictSet(its, id_, item), created |-> TRUE]

\* item = self.get(**kwargs); if item: return item, False
RaceGet(c, defaults, kwargs) ==
    LET g == StoreGet(items, kwargs)
    IN  /\ callers[c].pc = "idle"
        /\ items' = g.items
        /\ callers' = [callers EXCEPT ![c] =
               [pc |-> IF Found(g.ret) THEN "done" ELSE "get",
                defaults |-> defaults, kwargs |-> kwargs, found |-> g.ret,
                item |-> g.ret, id |-> -1, mine |-> FALSE,
                created |-> FALSE]]
        /\ UNCHANGED <<allocated, log, ent, clock, last>>

\* item = kwargs; item.update(defaults); and save() up to the choice of the
\* id.
RaceChooseId(c) ==
    LET item == Update(callers[c].kwargs, callers[c].defaults)
    IN  /\ callers[c].pc = "get"
        /\ callers' = [callers EXCEPT ![c].pc = "save",
                                      ![c].item = Pop(item, "id"),
                                      ![c].id = ChooseId(items, item)]
        /\ UNCHANGED <<items, allocated, log, ent, clock, last>>

\* self._items[id_] = item; return id_.  The dict another caller has put
\* under the same id is no longer in the store.
RaceWrite(c) ==
    LET w == Write(items, callers[c].kwargs, callers[c].item, callers[c].id)
    IN  /\ callers[c].pc = "save"
        /\ Len(w.items) <= MaxItems
        /\ items' = w.items
        /\ allocated' = allocated \cup Keys(w.items)
        /\ callers' = [d \in Callers |->
               IF d = c
               THEN [callers[c] EXCEPT !.pc = "saved", !.mine = w.created,
                                       !.created = w.created]
               ELSE IF callers[d].pc \in {"saved", "done"}
                       /\ callers[d].id = callers[c].id /\ w.created
                    THEN [callers[d] EXCEPT !.mine = FALSE]
                    ELSE callers[d]]
        /\ UNCHANGED <<log, ent, clock, last>>

\* return _withid(item, id_), True: the id is set on the caller's dict,
\* which is the stored one unless it was replaced.
RaceReturn(c) ==
    /\ callers[c].pc = "saved"
    /\ items' = IF callers[c].mine
                THEN DictSet(items, callers[c].id,
                             WithId(DictGet(items, callers[c].id),
                                    callers[c].id))
                ELSE items
    /\ callers' = [callers EXCEPT ![c].pc = "done",
                       ![c].item = WithId(callers[c].item, callers[c].id)]
    /\ UNCHANGED <<allocated, log, ent, clock, last>>

\* Both callers have their results and call again.
RaceAgain ==
    /\ \A c \in Callers : callers[c].pc = "done"
    /\ callers' = NoCallers
    /\ UNCHANGED <<items, allocated, log, ent, clock, last>>

RaceInit == StoreInit

RaceNext ==
    \/ \E c \in Callers, defaults \in RaceDefaults, kwargs \in RaceLookups :
           RaceGet(c, defaults, kwargs)
    \/ \E c \in Callers : RaceChooseId(c)
    \/ \E c \in Callers : RaceWrite(c)
    \/ \E c \in Callers : RaceReturn(c)
    \/ RaceAgain

RaceSpec == RaceInit /\ [][RaceNext]_vars

\* Both callers are done with calls that had the same arguments and whose
\* lookups both found nothing.
BothMissed ==
    /\ \A c \in Callers : callers[c].pc = "done" /\ ~Found(callers[c].found)
    /\ callers[1].defaults = callers[2].defaults
    /\ callers[1].kwargs = callers[2].kwargs

\* C22: on the in-process store, two get_or_create calls with the same
\* arguments whose lookups both found nothing (the second looked up before
\* the first had saved) both return created = true and both insert: the
\* store ends with two items for the lookup, or with one item that the
\* second insert wrote over the first.
C22_BothCreate ==
    BothMissed =>
        /\ \A c \in Callers : callers[c].created
        /\ \A c \in Callers : callers[c].id \in Keys(items)
        /\ Agree(callers[1].defaults, callers[1].kwargs) =>
               Len(StoreFilter(items, callers[1].kwargs).ret)
                   >= Cardinality({callers[c].id : c \in Callers})

\* Both callers created an item for the same lookup, and the store holds
\* the two.
C22_Witness ==
    /\ BothMissed
    /\ \A c \in Callers : callers[c].created
    /\ Agree(callers[1].defaults, callers[1].kwargs)
    /\ callers[1].id # callers[2].id
    /\ Len(StoreFilter(items, callers[1].kwargs).ret) = 2

\* Both callers created an item, and the second is stored in place of the
\* first.
C22_Overwritten ==
    /\ BothMissed
    /\ \A c \in Callers : callers[c].created
    /\ "id" \notin DOMAIN callers[1].kwargs
    /\ callers[1].id = callers[2].id
    /\ Len(StoreFilter(items, callers[1].kwargs).ret) = 1

(* ------------------- get_or_create of SQLAlchemyStore ----------------- *)
(* Two threads call get_or_create on one SQLAlchemyStore.  The store has    *)
(* one connection (self._conn, made in __init__), so both calls begin       *)
(* their transactions on it.  `items` is the table as the connection sees   *)
(* it, a row being [id, item] with the item holding the columns that are    *)
(* not NULL.  Connection.begin() of the SQLAlchemy releases the store is    *)
(* written for (select([...]), row.items()) starts the transaction when     *)
(* the connection has none and otherwise hands out a Transaction nested in  *)
(* it: a nested commit does nothing, any rollback rolls the whole           *)
(* transaction back, and a statement outside a transaction commits itself.  *)

\* What the two callers pass: the key is looked up, as the manager does.
SqlDefaults == {<<>>, [status |-> 1]}

SqlLookups == {[key |-> 1], [key |-> 2]}

\* _match and filter: the rows with the id, or with every column of the
\* filter equal; each as a dict of its columns, the id among them.
SqlFilter(rows, kwargs) ==
    LET hits == IF "id" \in DOMAIN kwargs
                THEN SelectSeq(rows, LAMBDA r : r.id = kwargs.id)
                ELSE SelectSeq(rows, LAMBDA r : match(r.item, kwargs))
    IN  [i \in 1 .. Len(hits) |-> WithId(hits[i].item, hits[i].id)]

\* _BaseStore.get on the table.
SqlGet(rows, kwargs) ==
    IF SqlFilter(rows, kwargs) # <<>> THEN SqlFilter(rows, kwargs)[1] ELSE None

\* The columns of the table that are declared unique=True.
UniqueColumns == {"key"}

\* The row breaks the table's constraints: key is NULL, or a unique column
\* has the value in another row.
Violates(rows, values, id_) ==
    \/ "key" \notin DOMAIN values
    \/ \E i \in 1 .. Len(rows) :
           /\ rows[i].id # id_
           /\ \E k \in UniqueColumns \cap DOMAIN values :
                  k \in DOMAIN rows[i].item /\ rows[i].item[k] = values[k]

\* SQLAlchemyStore.save: an insert with the next primary key for an item
\* without id, an update of the row with the id otherwise.
SqlSave(rows, item, fresh) ==
    LET values == Pop(item, "id")
    IN  IF "id" \notin DOMAIN item
        THEN IF Violates(rows, values, fresh)
             THEN [rows |-> rows, exc |-> "IntegrityError", ret |-> None]
             ELSE [rows |-> Append(rows, [id |-> fresh, item |-> values]),
                   exc |-> NoExc, ret |-> fresh]
        ELSE IF item.id \in Keys(rows)
                /\ Violates(rows, Update(DictGet(rows, item.id), values),
                            item.id)
             THEN [rows |-> rows, exc |-> "IntegrityError", ret |-> None]
             ELSE [rows |-> [i \in 1 .. Len(rows) |->
                                IF rows[i].id = item.id
                                THEN [rows[i] EXCEPT
                                         !.item = Update(rows[i].item, values)]
                                ELSE rows[i]],
                   exc |-> NoExc, ret |-> item.id]

\* The connection is in a transaction: the caller that began it has neither
\* committed it nor seen it rolled back.
InTransaction ==
    \E d \in Callers : callers[d].pc # "idle" /\ callers[d].root
                       /\ callers[d].active

\* The caller whose begin() started the transaction c's Transaction belongs
\* to.
Root(c) == IF callers[c].root THEN c ELSE CHOOSE d \in Callers : d # c

\* with self._conn.begin():
SqlBegin(c, defaults, kwargs) ==
    /\ callers[c].pc = "idle"
    /\ callers' = [callers EXCEPT ![c] =
           [pc |-> "select", defaults |-> defaults, kwargs |-> kwargs,
            root |-> ~InTransaction, active |-> TRUE, snapshot |-> items,
            item |-> None, id |-> 0, created |-> FALSE, exc |-> NoExc]]
    /\ UNCHANGED <<items, allocated, log, ent, clock, last>>

\* item = self.get(**kwargs); if item: return item, False; otherwise
\* item = kwargs; item.update(defaults)
SqlSelect(c) ==
    LET g == SqlGet(items, callers[c].kwargs)
    IN  /\ callers[c].pc = "select"
        /\ callers' = [callers EXCEPT
               ![c].pc = IF Found(g) THEN "exit" ELSE "insert",
               ![c].item = IF Found(g) THEN g
                           ELSE Update(callers[c].kwargs, callers[c].defaults)]
        /\ UNCHANGED <<items, allocated, log, ent, clock, last>>

\* id_ = self.save(item); return _withid(item, id_), True
SqlInsert(c) ==
    LET r == SqlSave(items, callers[c].item, Cardinality(allocated) + 1)
    IN  /\ callers[c].pc = "insert"
        /\ Len(r.rows) <= MaxItems
        /\ Cardinality(allocated) <= MaxItems
        /\ items' = r.rows
        /\ allocated' = IF r.exc = NoExc THEN allocated \cup {r.ret}
                        ELSE allocated
        /\ callers' = [callers EXCEPT
               ![c].pc = IF r.exc = NoExc THEN "exit" ELSE "raise",
               ![c].exc = r.exc,
               ![c].created = (r.exc = NoExc),
               ![c].id = IF r.exc = NoExc THEN r.ret ELSE 0,
               ![c].item = IF r.exc = NoExc THEN WithId(callers[c].item, r.ret)
                           ELSE callers[c].item]
        /\ UNCHANGED <<log, ent, clock, last>>

\* The with block is left.  Without an exception the Transaction commits,
\* which fails when its transaction is over and writes the rows when it is
\* the one that began it; with an exception, and when the Transaction was
\* rolled back meanwhile, it rolls back, which undoes every row written in
\* the transaction.
SqlExit(c) ==
    LET me == callers[c]
        parent == callers[Root(c)]
        commits == me.pc = "exit" /\ me.active
        rollsback == me.pc = "raise" /\ parent.active
    IN  /\ me.pc \in {"exit", "raise"}
        /\ items' = IF rollsback THEN parent.snapshot ELSE items
        /\ callers' = [d \in Callers |->
               IF d = c
               THEN [me EXCEPT
                        !.pc = "done",
                        !.active = FALSE,
                        !.exc = IF commits /\ ~parent.active
                                THEN "InvalidRequestError" ELSE me.exc]
               ELSE IF d = Root(c) /\ rollsback
                    THEN [callers[d] EXCEPT !.active = FALSE]
                    ELSE callers[d]]
        /\ UNCHANGED <<allocated, log, ent, clock, last>>

\* Both callers have their results and call again.
SqlAgain ==
    /\ \A c \in Callers : callers[c].pc = "done"
    /\ callers' = NoCallers
    /\ UNCHANGED <<items, allocated, log, ent, clock, last>>

SqlInit == StoreInit

SqlNext ==
    \/ \E c \in Callers, defaults \in SqlDefaults, kwargs \in SqlLookups :
           SqlBegin(c, defaults, kwargs)
    \/ \E c \in Callers : SqlSelect(c)
    \/ \E c \in Callers : SqlInsert(c)
    \/ \E c \in Callers : SqlExit(c)
    \/ SqlAgain

SqlSpec == SqlInit /\ [][SqlNext]_vars

\* Both callers are done with calls that had the same arguments.
BothDone ==
    /\ \A c \in Callers : callers[c].pc = "done"
    /\ callers[1].defaults = callers[2].defaults
    /\ callers[1].kwargs = callers[2].kwargs

\* C23: after two concurrent get_or_create calls with the same arguments on
\* the relational store, at most one has returned created = true, the table
\* has exactly one row for the lookup, and a call that failed has left no
\* row it inserted.
C23_OneCreates ==
    BothDone =>
        /\ Cardinality({c \in Callers : /\ callers[c].created
                                        /\ callers[c].exc = NoExc}) <= 1
        /\ Len(SqlFilter(items, callers[1].kwargs)) = 1
        /\ \A c \in Callers :
               callers[c].exc # NoExc => callers[c].id \notin Keys(items)

====
